---- MODULE Spec2Model ----
(***************************************************************************)
(* A model of sftpclone's reconciliation engine (class SFTPClone):         *)
(* the deletion pass, the creation/upload pass, the symlink resolver and   *)
(* run(), over a small local tree and a small remote tree.                 *)
(*                                                                         *)
(* Node addresses are relative paths, sequences of one-letter names.       *)
(* Symlink targets are strings, modelled as sequences of characters so     *)
(* that the prefix test, the slicing and the joins of the symlink          *)
(* resolver are computed and not assumed.                                  *)
(* Local times are in tenths of a second (st_mtime is a float); remote     *)
(* times are whole seconds, as the SFTP attributes store them.             *)
(***************************************************************************)
EXTENDS Integers, Sequences, FiniteSets, TLC

VARIABLES
    local,          \* the local tree: relative path -> lstat record
    remote,         \* the remote tree: relative path -> lstat record
    exclude_list,   \* self.exclude_list, as relative paths of local nodes
    fix_symlinks,   \* self.fix_symlinks
    chown,          \* self.chown
    cwd,            \* the working directory of the process (os.path.realpath)
    fault,          \* the remote operation of a run that fails, if any
    pc,             \* where run() is: "start", a pass, "done" or "aborted"
    stack,          \* the frames of the recursion of the current pass
    log,            \* the remote operations issued by the current run
    run,            \* the number of the current run()
    remote0         \* the remote tree when the current run() started

vars == <<local, remote, exclude_list, fix_symlinks, chown, cwd, fault,
          pc, stack, log, run, remote0>>

----------------------------------------------------------------------------
(* Bounds *)

MaxSize == 1
MaxSec == 2
MaxRuns == 2
MaxFaultAt == 4
MaxExcluded == 1

----------------------------------------------------------------------------
(* stat module *)

S_IFIFO == 4096
S_IFDIR == 16384
S_IFREG == 32768
S_IFLNK == 40960

S_IFMT(mode) == (mode \div 4096) * 4096
S_IMODE(mode) == mode % 4096
S_ISDIR(mode) == S_IFMT(mode) = S_IFDIR
S_ISLNK(mode) == S_IFMT(mode) = S_IFLNK
S_ISREG(mode) == S_IFMT(mode) = S_IFREG

ENOENT == "ENOENT"
EACCES == "EACCES"

----------------------------------------------------------------------------
(* Paths and strings *)

Paths == {<<"a">>, <<"b">>, <<"a", "c">>}
Root == <<>>
Parent(p) == SubSeq(p, 1, Len(p) - 1)
Basename(p) == p[Len(p)]

\* self.local_path and self.remote_path
local_path == <<"/", "l">>
remote_path == <<"/", "r">>

\* os.path.join of two strings
join(a, b) ==
    IF b # <<>> /\ Head(b) = "/" THEN b
    ELSE IF a = <<>> \/ a[Len(a)] = "/" THEN a \o b
    ELSE a \o <<"/">> \o b

\* os.path.commonprefix of two strings: character by character
RECURSIVE commonprefix(_, _)
commonprefix(a, b) ==
    IF a = <<>> \/ b = <<>> \/ Head(a) # Head(b) THEN <<>>
    ELSE <<Head(a)>> \o commonprefix(Tail(a), Tail(b))

\* the components of a string between its slashes
RECURSIVE Split(_, _)
Split(s, cur) ==
    IF s = <<>> THEN <<cur>>
    ELSE IF Head(s) = "/" THEN <<cur>> \o Split(Tail(s), <<>>)
    ELSE Split(Tail(s), Append(cur, Head(s)))

\* the components with "", "." dropped and ".." applied
RECURSIVE Normalize(_, _)
Normalize(comps, acc) ==
    IF comps = <<>> THEN acc
    ELSE LET c == Head(comps) IN
         IF c = <<>> \/ c = <<".">> THEN Normalize(Tail(comps), acc)
         ELSE IF c = <<".", ".">>
              THEN Normalize(Tail(comps),
                             IF acc = <<>> THEN acc
                             ELSE SubSeq(acc, 1, Len(acc) - 1))
         ELSE Normalize(Tail(comps), Append(acc, c))

RECURSIVE Unsplit(_)
Unsplit(comps) ==
    IF comps = <<>> THEN <<>>
    ELSE <<"/">> \o Head(comps) \o Unsplit(Tail(comps))

\* os.path.realpath of a string whose components are no symlinks: made
\* absolute against the working directory, then normalized
realpath(s) ==
    LET abs == IF s # <<>> /\ Head(s) = "/" THEN s ELSE join(cwd, s)
        n == Unsplit(Normalize(Split(abs, <<>>), <<>>))
    IN  IF n = <<>> THEN <<"/">> ELSE n

\* the string of a relative path: its names joined by slashes
RECURSIVE RelStr(_)
RelStr(p) ==
    IF p = <<>> THEN <<>>
    ELSE IF Len(p) = 1 THEN <<p[1]>>
    ELSE <<Head(p)>> \o <<"/">> \o RelStr(Tail(p))

----------------------------------------------------------------------------
(* Nodes *)

\* no node at a path (lexists is false, lstat fails with ENOENT)
NoLocal == [st_mode |-> 0, st_size |-> 0, st_mtime |-> 0, st_atime |-> 0,
            st_uid |-> 0, st_gid |-> 0, link |-> <<>>]
NoRemote == [st_mode |-> 0, st_size |-> 0, st_mtime |-> 0, st_atime |-> 0,
             st_uid |-> 0, st_gid |-> 0, link |-> <<>>, gen |-> 0]

\* the remote host holds more than the remote root: a directory /o beside
\* it, and a file in that directory
Outside == <<"..", "o">>
OutsideFile == <<"..", "o", "x">>

\* the clock of the remote host, later than every time of the local tree
ServerNow == MaxSec + 1

\* the uid and gid the remote session acts as: root iff self.chown
SessionId == IF chown THEN 0 ELSE 1

\* a node the remote host creates during the current run
NewRemote(fmt, size, target) ==
    [st_mode |-> fmt + 448, st_size |-> size, st_mtime |-> ServerNow,
     st_atime |-> ServerNow, st_uid |-> SessionId, st_gid |-> SessionId,
     link |-> target, gen |-> run]

Exists(fs, p) == p = Root \/ (p \in DOMAIN fs /\ fs[p].st_mode # 0)
IsDir(fs, p) == p = Root \/ (p \in DOMAIN fs /\ S_ISDIR(fs[p].st_mode))
Children(fs, p) == {q \in DOMAIN fs : Parent(q) = p /\ fs[q].st_mode # 0}
IsUnder(q, p) == Len(q) >= Len(p) /\ SubSeq(q, 1, Len(p)) = p

\* a change of the entries of a directory sets its modification time
Touch(fs, p) ==
    IF p \in DOMAIN fs THEN [fs EXCEPT ![p].st_mtime = ServerNow] ELSE fs

\* the absolute name of a node of the remote host
AbsStr(q) ==
    IF q # <<>> /\ Head(q) = ".." THEN <<"/">> \o RelStr(Tail(q))
    ELSE join(remote_path, RelStr(q))

\* the nodes the link at p leads to: a link is followed once, to a node
\* that is no link, and is dangling when its target names no such node
Dest(fs, p) ==
    LET t == fs[p].link IN
    {q \in DOMAIN fs :
        /\ fs[q].st_mode # 0
        /\ ~S_ISLNK(fs[q].st_mode)
        /\ \/ t = AbsStr(q)
           \/ /\ t # <<>>
              /\ Head(t) # "/"
              /\ join(RelStr(Parent(p)), t) = RelStr(q)}

\* one of the nodes D a link leads to, or alt when the link dangles
Landing(D, alt) == IF D = {} THEN alt ELSE CHOOSE q \in D : TRUE

\* one of the nodes D, or no node when there is none
NodeAt(fs, D) == IF D = {} THEN NoRemote ELSE fs[CHOOSE q \in D : TRUE]

\* the node a following stat reaches from p: p itself unless it is a link
Follow(fs, p) ==
    IF ~S_ISLNK(fs[p].st_mode) THEN fs[p] ELSE NodeAt(fs, Dest(fs, p))

\* p, or the node the link at p leads to
FollowDir(fs, p) ==
    IF p \in DOMAIN fs /\ S_ISLNK(fs[p].st_mode)
    THEN Landing(Dest(fs, p), p)
    ELSE p

\* the path the remote host acts on when it is given p: a link in the
\* place of the directory of p is followed
Res(fs, p) ==
    IF Len(p) < 2 THEN p
    ELSE Append(FollowDir(fs, Parent(p)), Basename(p))

\* the directory a listing of p reads: a link in the place of p is followed
ResDir(fs, p) == FollowDir(fs, Res(fs, p))

\* an external actor removes the node at p and what lies below it
Vanish(fs, p) ==
    Touch([q \in DOMAIN fs |->
              IF q \in Paths /\ IsUnder(q, p) THEN NoRemote ELSE fs[q]],
          Parent(p))

----------------------------------------------------------------------------
(* The remote file system behind self.sftp.  A context ctx carries the      *)
(* remote tree fs, the log of the operations issued, the exception in       *)
(* flight err ("ok" when none), the value ret the last operation returned   *)
(* and the pass that issues the operations.  An operation is not issued     *)
(* while an exception is in flight.  The attributes a listing returns are   *)
(* those of the entries themselves, as lstat returns them.                  *)

NoFault == [at |-> 0, err |-> "ok"]

\* an entry of the log: the operation, the path p it is given, the node q of
\* the remote host that path names, and the pass that issues it
Begin(ctx, op, p, q) ==
    [ctx EXCEPT !.log = Append(@, [op |-> op, path |-> p, pass |-> ctx.pass,
                                   node |-> q])]
\* the fault strikes the first run only: the second run meets a healthy host.
\* A fault ENOENT is the race with an external actor during the deletion
\* pass: the node the operation addresses has just been removed
Faulty(ctx) ==
    /\ run = 1
    /\ fault.at = Len(ctx.log) + 1
    /\ fault.err = ENOENT => ctx.pass = "deletion"
Raise(ctx, e) == [ctx EXCEPT !.err = e]
Return(ctx, v) == [ctx EXCEPT !.ret = v]
Fail(ctx, p) ==
    IF fault.err = ENOENT
    THEN Raise([ctx EXCEPT !.fs = Vanish(@, p)], ENOENT)
    ELSE Raise(ctx, fault.err)

\* what the remote host does with an operation given p, which names its
\* node q (and, for a listing, its directory d)
host_listdir_attr(ctx, p, q, d) ==
    LET c == Begin(ctx, "listdir_attr", p, q) IN
    IF Faulty(ctx) THEN Fail(c, d)
    ELSE IF ~Exists(c.fs, d) THEN Raise(c, ENOENT)
    ELSE IF ~IsDir(c.fs, d) THEN Raise(c, "EFAIL")
    ELSE Return(c, {[filename |-> Basename(e), st |-> c.fs[e]] :
                       e \in Children(c.fs, d)})

host_lstat(ctx, p, q) ==
    LET c == Begin(ctx, "lstat", p, q) IN
    IF Faulty(ctx) THEN Fail(c, q)
    ELSE IF ~Exists(c.fs, q) THEN Raise(c, ENOENT)
    ELSE Return(c, c.fs[q])

\* a following stat fails on a dangling link
Answer(c, st) == IF st.st_mode = 0 THEN Raise(c, ENOENT) ELSE Return(c, st)

host_stat(ctx, p, q) ==
    LET c == Begin(ctx, "stat", p, q) IN
    IF Faulty(ctx) THEN Fail(c, q)
    ELSE IF ~Exists(c.fs, q) THEN Raise(c, ENOENT)
    ELSE Answer(c, Follow(c.fs, q))

host_readlink(ctx, p, q) ==
    LET c == Begin(ctx, "readlink", p, q) IN
    IF Faulty(ctx) THEN Fail(c, q)
    ELSE IF ~Exists(c.fs, q) THEN Raise(c, ENOENT)
    ELSE IF ~S_ISLNK(c.fs[q].st_mode) THEN Raise(c, "EFAIL")
    ELSE Return(c, c.fs[q].link)

host_remove(ctx, p, q) ==
    LET c == Begin(ctx, "remove", p, q) IN
    IF Faulty(ctx) THEN Fail(c, q)
    ELSE IF ~Exists(c.fs, q) THEN Raise(c, ENOENT)
    ELSE IF S_ISDIR(c.fs[q].st_mode) THEN Raise(c, "EFAIL")
    ELSE [c EXCEPT !.fs = Touch([@ EXCEPT ![q] = NoRemote], Parent(q))]

host_rmdir(ctx, p, q) ==
    LET c == Begin(ctx, "rmdir", p, q) IN
    IF Faulty(ctx) THEN Fail(c, q)
    ELSE IF ~Exists(c.fs, q) THEN Raise(c, ENOENT)
    ELSE IF ~S_ISDIR(c.fs[q].st_mode) \/ Children(c.fs, q) # {}
         THEN Raise(c, "EFAIL")
    ELSE [c EXCEPT !.fs = Touch([@ EXCEPT ![q] = NoRemote], Parent(q))]

\* a node made at q, whose directory must be there
Create(c, q, node) ==
    IF ~IsDir(c.fs, Parent(q)) \/ q \notin DOMAIN c.fs THEN Raise(c, ENOENT)
    ELSE IF Exists(c.fs, q) THEN Raise(c, "EFAIL")
    ELSE [c EXCEPT !.fs = Touch([@ EXCEPT ![q] = node], Parent(q))]

host_mkdir(ctx, p, q) ==
    LET c == Begin(ctx, "mkdir", p, q) IN
    IF Faulty(ctx) THEN Fail(c, q)
    ELSE Create(c, q, NewRemote(S_IFDIR, 0, <<>>))

host_symlink(ctx, target, p, q) ==
    LET c == Begin(ctx, "symlink", p, q) IN
    IF Faulty(ctx) THEN Fail(c, q)
    ELSE Create(c, q, NewRemote(S_IFLNK, Len(target), target))

\* put writes the whole file: a new node, or the size and the modification
\* time of the regular file that is there
host_put(ctx, l_st, p, q) ==
    LET c == Begin(ctx, "put", p, q) IN
    IF Faulty(ctx) THEN Fail(c, q)
    ELSE IF ~Exists(c.fs, q)
         THEN Create(c, q, NewRemote(S_IFREG, l_st.st_size, <<>>))
    ELSE IF ~IsDir(c.fs, Parent(q)) \/ q \notin DOMAIN c.fs
         THEN Raise(c, ENOENT)
    ELSE IF ~S_ISREG(c.fs[q].st_mode) THEN Raise(c, "EFAIL")
    ELSE [c EXCEPT !.fs[q].st_size = l_st.st_size,
                   !.fs[q].st_mtime = ServerNow]

host_chmod(ctx, p, q, perm) ==
    LET c == Begin(ctx, "chmod", p, q) IN
    IF Faulty(ctx) THEN Fail(c, q)
    ELSE IF ~Exists(c.fs, q) THEN Raise(c, ENOENT)
    ELSE [c EXCEPT !.fs[q].st_mode = S_IFMT(@) + perm]

\* the times are floats on the local side and sent as whole seconds
host_utime(ctx, p, q, atime, mtime) ==
    LET c == Begin(ctx, "utime", p, q) IN
    IF Faulty(ctx) THEN Fail(c, q)
    ELSE IF ~Exists(c.fs, q) THEN Raise(c, ENOENT)
    ELSE [c EXCEPT !.fs[q].st_atime = atime \div 10,
                   !.fs[q].st_mtime = mtime \div 10]

host_chown(ctx, p, q, uid, gid) ==
    LET c == Begin(ctx, "chown", p, q) IN
    IF Faulty(ctx) THEN Fail(c, q)
    ELSE IF ~Exists(c.fs, q) THEN Raise(c, ENOENT)
    ELSE [c EXCEPT !.fs[q].st_uid = uid, !.fs[q].st_gid = gid]

\* the calls of self.sftp: none is made while an exception is in flight
sftp_listdir_attr(ctx, p) ==
    IF ctx.err # "ok" THEN ctx
    ELSE host_listdir_attr(ctx, p, Res(ctx.fs, p), ResDir(ctx.fs, p))

sftp_lstat(ctx, p) ==
    IF ctx.err # "ok" THEN ctx ELSE host_lstat(ctx, p, Res(ctx.fs, p))

sftp_stat(ctx, p) ==
    IF ctx.err # "ok" THEN ctx ELSE host_stat(ctx, p, Res(ctx.fs, p))

sftp_readlink(ctx, p) ==
    IF ctx.err # "ok" THEN ctx ELSE host_readlink(ctx, p, Res(ctx.fs, p))

sftp_remove(ctx, p) ==
    IF ctx.err # "ok" THEN ctx ELSE host_remove(ctx, p, Res(ctx.fs, p))

sftp_rmdir(ctx, p) ==
    IF ctx.err # "ok" THEN ctx ELSE host_rmdir(ctx, p, Res(ctx.fs, p))

sftp_mkdir(ctx, p) ==
    IF ctx.err # "ok" THEN ctx ELSE host_mkdir(ctx, p, Res(ctx.fs, p))

sftp_symlink(ctx, target, p) ==
    IF ctx.err # "ok" THEN ctx
    ELSE host_symlink(ctx, target, p, Res(ctx.fs, p))

sftp_put(ctx, l_st, p) ==
    IF ctx.err # "ok" THEN ctx ELSE host_put(ctx, l_st, p, Res(ctx.fs, p))

sftp_chmod(ctx, p, perm) ==
    IF ctx.err # "ok" THEN ctx ELSE host_chmod(ctx, p, Res(ctx.fs, p), perm)

sftp_utime(ctx, p, atime, mtime) ==
    IF ctx.err # "ok" THEN ctx
    ELSE host_utime(ctx, p, Res(ctx.fs, p), atime, mtime)

sftp_chown(ctx, p, uid, gid) ==
    IF ctx.err # "ok" THEN ctx
    ELSE host_chown(ctx, p, Res(ctx.fs, p), uid, gid)

----------------------------------------------------------------------------
(* The methods of SFTPClone *)

Clear(ctx) == [ctx EXCEPT !.err = "ok"]

\* int() of a local time: whole seconds
int(t) == t \div 10

\* variant: the local time is compared as it is, fractions included
_file_need_upload_float(l_st, r_st) ==
    IF (l_st.st_size # r_st.st_size) \/ (l_st.st_mtime # r_st.st_mtime * 10)
    THEN TRUE ELSE FALSE

\* variant: only the sizes are compared
_file_need_upload_size(l_st, r_st) ==
    IF l_st.st_size # r_st.st_size THEN TRUE ELSE FALSE

_file_need_upload(l_st, r_st) ==
    IF (l_st.st_size # r_st.st_size) \/ (int(l_st.st_mtime) # r_st.st_mtime)
    THEN TRUE ELSE FALSE

_match_modes(ctx, p, l_st) ==
    LET c1 == sftp_chmod(ctx, p, S_IMODE(l_st.st_mode))
        c2 == sftp_utime(c1, p, l_st.st_atime, l_st.st_mtime)
    IN  IF chown THEN sftp_chown(c2, p, l_st.st_uid, l_st.st_gid) ELSE c2

\* variant: the file is uploaded and its attributes are left as put made them
file_upload_bare(ctx, p, l_st) == sftp_put(ctx, l_st, p)

file_upload(ctx, p, l_st) == _match_modes(sftp_put(ctx, l_st, p), p, l_st)

\* os.path.lexists and os.lstat of the local counterpart of a remote path
lexists(p) == p \in Paths /\ local[p].st_mode # 0

\* variant: the types are not compared
_must_be_deleted_untyped(p, r_st) ==
    IF ~lexists(p) THEN TRUE ELSE FALSE

\* variant: the remote counterpart of an excluded local node is kept
_must_be_deleted_excluding(p, r_st) ==
    IF ~lexists(p) THEN TRUE
    ELSE IF p \in exclude_list THEN FALSE
    ELSE IF S_IFMT(r_st.st_mode) # S_IFMT(local[p].st_mode) THEN TRUE
    ELSE FALSE

_must_be_deleted(p, r_st) ==
    IF ~lexists(p) THEN TRUE
    ELSE IF S_IFMT(r_st.st_mode) # S_IFMT(local[p].st_mode) THEN TRUE
    ELSE FALSE

RECURSIVE remote_delete(_, _, _)
RECURSIVE remote_delete_items(_, _, _)

\* the loop of remote_delete over the listing of a directory
remote_delete_items(ctx, p, items) ==
    IF items = {} \/ ctx.err # "ok" THEN ctx
    ELSE LET item == CHOOSE i \in items : TRUE IN
         remote_delete_items(
             remote_delete(ctx, Append(p, item.filename), item.st),
             p, items \ {item})

\* variant: the directory is removed before its content
remote_delete_preorder(ctx, p, r_st) ==
    IF S_ISDIR(r_st.st_mode)
    THEN LET c1 == sftp_listdir_attr(ctx, p) IN
         IF c1.err # "ok" THEN c1
         ELSE remote_delete_items(sftp_rmdir(c1, p), p, c1.ret)
    ELSE LET c1 == sftp_remove(ctx, p) IN
         IF c1.err = ENOENT THEN Clear(c1) ELSE c1

\* variant: the type is that of the node a link leads to
remote_delete_following(ctx, p, r_st) ==
    IF LET q == Res(ctx.fs, p) IN
       IF q \in DOMAIN ctx.fs THEN S_ISDIR(Follow(ctx.fs, q).st_mode)
       ELSE S_ISDIR(r_st.st_mode)
    THEN LET c1 == sftp_listdir_attr(ctx, p) IN
         IF c1.err # "ok" THEN c1
         ELSE sftp_rmdir(remote_delete_items(c1, p, c1.ret), p)
    ELSE LET c1 == sftp_remove(ctx, p) IN
         IF c1.err = ENOENT THEN Clear(c1) ELSE c1

remote_delete(ctx, p, r_st) ==
    IF S_ISDIR(r_st.st_mode)
    THEN LET c1 == sftp_listdir_attr(ctx, p) IN
         IF c1.err # "ok" THEN c1
         ELSE sftp_rmdir(remote_delete_items(c1, p, c1.ret), p)
    ELSE LET c1 == sftp_remove(ctx, p) IN
         IF c1.err = ENOENT THEN Clear(c1) ELSE c1

\* variant: a link that is kept and leads to a directory is traversed
check_for_deletion_entry_following(ctx, relative_path, remote_st) ==
    LET inner == Append(relative_path, remote_st.filename)
        c1 == sftp_lstat(ctx, inner)
        r_lstat == c1.ret
    IN  IF c1.err # "ok" THEN [ctx |-> c1, push |-> <<>>]
        ELSE IF _must_be_deleted(inner, r_lstat)
        THEN [ctx |-> remote_delete(c1, inner, r_lstat), push |-> <<>>]
        ELSE IF S_ISDIR(Follow(c1.fs, Res(c1.fs, inner)).st_mode)
        THEN LET c2 == sftp_listdir_attr(c1, inner) IN
             [ctx |-> c2,
              push |-> IF c2.err # "ok" THEN <<>>
                       ELSE <<[rel |-> inner, todo |-> c2.ret]>>]
        ELSE [ctx |-> c1, push |-> <<>>]

\* one iteration of the loop of check_for_deletion(relative_path) on the
\* entry remote_st of the listing; push holds the frame of the recursive
\* call, when there is one
check_for_deletion_entry(ctx, relative_path, remote_st) ==
    LET inner == Append(relative_path, remote_st.filename)
        c1 == sftp_lstat(ctx, inner)
        r_lstat == c1.ret
    IN  IF c1.err # "ok" THEN [ctx |-> c1, push |-> <<>>]
        ELSE IF S_ISLNK(r_lstat.st_mode)
        THEN [ctx |-> IF _must_be_deleted(inner, r_lstat)
                      THEN remote_delete(c1, inner, r_lstat) ELSE c1,
              push |-> <<>>]
        ELSE IF _must_be_deleted(inner, remote_st.st)
        THEN [ctx |-> remote_delete(c1, inner, remote_st.st), push |-> <<>>]
        ELSE IF S_ISDIR(remote_st.st.st_mode)
        THEN LET c2 == sftp_listdir_attr(c1, inner) IN
             [ctx |-> c2,
              push |-> IF c2.err # "ok" THEN <<>>
                       ELSE <<[rel |-> inner, todo |-> c2.ret]>>]
        ELSE [ctx |-> c1, push |-> <<>>]

\* variant: a link with another target is not removed before the new one
\* is made
create_update_symlink_keep(ctx, link_destination, p) ==
    LET c1 == sftp_readlink(ctx, p)
        c2 == IF c1.err = "ok" /\ link_destination # c1.ret
              THEN sftp_symlink(c1, link_destination, p)
              ELSE c1
        c3 == IF c2.err = "ok" THEN c2
              ELSE sftp_symlink(Clear(c2), link_destination, p)
    IN  Clear(c3)

create_update_symlink(ctx, link_destination, p) ==
    LET c1 == sftp_readlink(ctx, p)
        c2 == IF c1.err = "ok" /\ link_destination # c1.ret
              THEN sftp_symlink(sftp_remove(c1, p), link_destination, p)
              ELSE c1
        c3 == IF c2.err = "ok" THEN c2
              ELSE sftp_symlink(Clear(c2), link_destination, p)
    IN  Clear(c3)

\* os.listdir of a local directory: names only, in the shape of the
\* entries of a remote listing, with no attributes
listdir(p) == {[filename |-> Basename(q), st |-> NoRemote] : q \in Children(local, p)}

\* the symlink resolver of node_check_for_upload_create
trailing_local_path == join(local_path, <<>>)
is_absolute(local_link) == local_link # <<>> /\ Head(local_link) = "/"
\* variant: the prefix is the root without its trailing separator
relpath_bare(local_link) ==
    commonprefix(realpath(local_link), local_path) = local_path

relpath(local_link) ==
    commonprefix(realpath(local_link), trailing_local_path) = trailing_local_path
relative_link(local_link) ==
    LET absolute_local_link == realpath(local_link) IN
    SubSeq(absolute_local_link, Len(trailing_local_path) + 1,
           Len(absolute_local_link))

\* variant: a local directory is traversed and not created
node_check_for_upload_create_nomkdir(ctx, relative_path, f) ==
    LET p == Append(relative_path, f)
        l_st == local[p]
    IN  IF p \in exclude_list THEN [ctx |-> ctx, push |-> <<>>]
        ELSE IF S_ISDIR(l_st.st_mode)
        THEN [ctx |-> ctx, push |-> <<[rel |-> p, todo |-> listdir(p)]>>]
        ELSE IF S_ISLNK(l_st.st_mode)
        THEN LET local_link == l_st.link IN
             [ctx |-> IF is_absolute(local_link) /\ relpath(local_link)
                      THEN IF fix_symlinks
                           THEN create_update_symlink(
                                    ctx,
                                    join(remote_path, relative_link(local_link)),
                                    p)
                           ELSE ctx
                      ELSE create_update_symlink(ctx, local_link, p),
              push |-> <<>>]
        ELSE IF S_ISREG(l_st.st_mode)
        THEN LET c1 == sftp_lstat(ctx, p)
                 c2 == IF c1.err = "ok" /\ _file_need_upload(l_st, c1.ret)
                       THEN file_upload(c1, p, l_st) ELSE c1
             IN  [ctx |-> IF c2.err = "ok" THEN c2
                          ELSE IF c2.err = ENOENT
                          THEN file_upload(Clear(c2), p, l_st)
                          ELSE Clear(c2),
                  push |-> <<>>]
        ELSE [ctx |-> ctx, push |-> <<>>]

\* variant: the exclusion set is not consulted
node_check_for_upload_create_unfiltered(ctx, relative_path, f) ==
    LET p == Append(relative_path, f)
        l_st == local[p]
    IN  IF S_ISDIR(l_st.st_mode)
        THEN LET c1 == sftp_stat(ctx, p)
                 c2 == IF c1.err # "ok" THEN sftp_mkdir(Clear(c1), p) ELSE c1
                 c3 == _match_modes(c2, p, l_st)
             IN  [ctx |-> c3,
                  push |-> IF c3.err # "ok" THEN <<>>
                           ELSE <<[rel |-> p, todo |-> listdir(p)]>>]
        ELSE IF S_ISLNK(l_st.st_mode)
        THEN LET local_link == l_st.link IN
             [ctx |-> IF is_absolute(local_link) /\ relpath(local_link)
                      THEN IF fix_symlinks
                           THEN create_update_symlink(
                                    ctx,
                                    join(remote_path, relative_link(local_link)),
                                    p)
                           ELSE ctx
                      ELSE create_update_symlink(ctx, local_link, p),
              push |-> <<>>]
        ELSE IF S_ISREG(l_st.st_mode)
        THEN LET c1 == sftp_lstat(ctx, p)
                 c2 == IF c1.err = "ok" /\ _file_need_upload(l_st, c1.ret)
                       THEN file_upload(c1, p, l_st) ELSE c1
             IN  [ctx |-> IF c2.err = "ok" THEN c2
                          ELSE IF c2.err = ENOENT
                          THEN file_upload(Clear(c2), p, l_st)
                          ELSE Clear(c2),
                  push |-> <<>>]
        ELSE [ctx |-> ctx, push |-> <<>>]

node_check_for_upload_create(ctx, relative_path, f) ==
    LET p == Append(relative_path, f)
        l_st == local[p]
    IN  IF p \in exclude_list THEN [ctx |-> ctx, push |-> <<>>]
        ELSE IF S_ISDIR(l_st.st_mode)
        THEN LET c1 == sftp_stat(ctx, p)
                 c2 == IF c1.err # "ok" THEN sftp_mkdir(Clear(c1), p) ELSE c1
                 c3 == _match_modes(c2, p, l_st)
             IN  [ctx |-> c3,
                  push |-> IF c3.err # "ok" THEN <<>>
                           ELSE <<[rel |-> p, todo |-> listdir(p)]>>]
        ELSE IF S_ISLNK(l_st.st_mode)
        THEN LET local_link == l_st.link IN
             [ctx |-> IF is_absolute(local_link) /\ relpath(local_link)
                      THEN IF fix_symlinks
                           THEN create_update_symlink(
                                    ctx,
                                    join(remote_path, relative_link(local_link)),
                                    p)
                           ELSE ctx
                      ELSE create_update_symlink(ctx, local_link, p),
              push |-> <<>>]
        ELSE IF S_ISREG(l_st.st_mode)
        THEN LET c1 == sftp_lstat(ctx, p)
                 c2 == IF c1.err = "ok" /\ _file_need_upload(l_st, c1.ret)
                       THEN file_upload(c1, p, l_st) ELSE c1
             IN  [ctx |-> IF c2.err = "ok" THEN c2
                          ELSE IF c2.err = ENOENT
                          THEN file_upload(Clear(c2), p, l_st)
                          ELSE Clear(c2),
                  push |-> <<>>]
        ELSE [ctx |-> ctx, push |-> <<>>]

----------------------------------------------------------------------------
(* The initial states: the trees and the options run() may start from.      *)
(* Five families are drawn: every shape of the two trees with one set of    *)
(* attributes per type; one file or one directory with every combination    *)
(* of attributes; one symlink with every kind of target; small trees on a   *)
(* remote host that fails one operation; and trees of which an external     *)
(* actor removes a node during the deletion pass.                           *)

LNode(fmt, perm, size, mtime, id, target) ==
    [st_mode |-> fmt + perm, st_size |-> size, st_mtime |-> mtime,
     st_atime |-> mtime, st_uid |-> id[1], st_gid |-> id[2], link |-> target]
RNode(fmt, perm, size, mtime, id, target) ==
    [st_mode |-> fmt + perm, st_size |-> size, st_mtime |-> mtime,
     st_atime |-> mtime, st_uid |-> id[1], st_gid |-> id[2], link |-> target,
     gen |-> 0]

Tree(a, b, c) == (<<"a">> :> a) @@ (<<"b">> :> b) @@ (<<"a", "c">> :> c)

Perms == {420, 493}
Sizes == 0..MaxSize
Secs == 1..MaxSec
LocalTimes == {s * 10 + f : s \in Secs, f \in {0, 5}}
LocalIds == {<<0, 0>>, <<1, 2>>}

LDir0 == LNode(S_IFDIR, 493, 0, 10, <<1, 1>>, <<>>)
LFile0 == LNode(S_IFREG, 420, 1, 15, <<1, 1>>, <<>>)
LLink0 == LNode(S_IFLNK, 511, 1, 10, <<1, 1>>, <<"b">>)
\* a local link with an absolute target inside the local tree
LLinkIn == LNode(S_IFLNK, 511, 4, 10, <<1, 1>>, <<"/", "l", "/", "b">>)
LOther0 == LNode(S_IFIFO, 420, 0, 10, <<1, 1>>, <<>>)
RDir0 == RNode(S_IFDIR, 448, 0, 2, <<1, 1>>, <<>>)
RFile0 == RNode(S_IFREG, 448, 0, 2, <<1, 1>>, <<>>)
\* the remote file a run leaves for LFile0
RFileSynced == RNode(S_IFREG, 420, 1, 1, <<1, 1>>, <<>>)
RLink0 == RNode(S_IFLNK, 511, 2, 2, <<1, 1>>, <<"/", "o">>)
\* a remote link to the directory a of the remote tree: at a/c it leads to
\* the directory that holds it
RLinkIn == RNode(S_IFLNK, 511, 4, 2, <<1, 1>>, <<"/", "r", "/", "a">>)
ROther0 == RNode(S_IFIFO, 448, 0, 2, <<1, 1>>, <<>>)

\* the nodes of the remote host outside the remote root
OutsideTree ==
    (Outside :> RNode(S_IFDIR, 493, 0, 1, <<1, 1>>, <<>>))
        @@ (OutsideFile :> RNode(S_IFREG, 420, 1, 1, <<1, 1>>, <<>>))
OnHost(t) == t @@ OutsideTree

LocalKinds == {NoLocal, LDir0, LFile0, LLink0, LLinkIn, LOther0}
RemoteKinds == {NoRemote, RDir0, RFile0, RFileSynced, RLink0, RLinkIn, ROther0}

\* a tree: a node below the root has a directory for parent
WellFormed(fs) ==
    \A p \in Paths : fs[p].st_mode # 0 => IsDir(fs, Parent(p))

LocalTrees == {t \in {Tree(a, b, c) : a \in LocalKinds, b \in LocalKinds,
                                      c \in LocalKinds} : WellFormed(t)}
RemoteTrees ==
    {OnHost(t) : t \in {u \in {Tree(a, b, c) : a \in RemoteKinds,
                                 b \in RemoteKinds, c \in RemoteKinds} :
                            WellFormed(u)}}

\* glob.glob returns paths that exist: the exclusion set holds local nodes
ExcludeSets(t) ==
    {S \in SUBSET {p \in Paths : t[p].st_mode # 0} : Cardinality(S) <= MaxExcluded}

InitTree ==
    /\ local \in LocalTrees
    /\ remote \in RemoteTrees
    /\ exclude_list \in ExcludeSets(local)
    /\ fix_symlinks \in BOOLEAN
    /\ chown = FALSE
    /\ cwd = <<"/", "w">>
    /\ fault = NoFault

LocalFiles == {LNode(S_IFREG, perm, size, t, id, <<>>) :
                 perm \in Perms, size \in Sizes, t \in LocalTimes, id \in LocalIds}
LocalDirs == {LNode(S_IFDIR, perm, 0, t, id, <<>>) :
                 perm \in Perms, t \in LocalTimes, id \in LocalIds}
RemoteFiles == {RNode(S_IFREG, perm, size, t, <<1, 1>>, <<>>) :
                  perm \in Perms, size \in Sizes, t \in Secs}
RemoteDirs == {RNode(S_IFDIR, perm, 0, t, <<1, 1>>, <<>>) :
                  perm \in Perms, t \in Secs}

InitAttr ==
    /\ \/ /\ local \in {Tree(a, NoLocal, NoLocal) : a \in LocalFiles}
          /\ remote \in {OnHost(Tree(a, NoRemote, NoRemote)) :
                           a \in RemoteFiles \cup {NoRemote}}
       \/ /\ local \in {Tree(a, NoLocal, c) :
                          a \in LocalDirs, c \in {NoLocal, LFile0}}
          /\ remote \in {OnHost(Tree(a, NoRemote, c)) :
                           a \in RemoteDirs, c \in {NoRemote, RFile0, RFileSynced}}
                        \cup {OnHost(Tree(NoRemote, NoRemote, NoRemote))}
    /\ exclude_list = {}
    /\ fix_symlinks = FALSE
    /\ chown \in BOOLEAN
    /\ cwd = <<"/", "w">>
    /\ fault = NoFault

\* targets of local links: absolute inside the tree, plain or to be
\* normalized; the root itself; a sibling that shares the prefix of the
\* root; absolute outside the tree, plain or through ".."; relative
LinkTargets ==
    {<<"/", "l", "/", "b">>, <<"/", "l", "/", ".", "/", "b">>,
     <<"/", "l">>, <<"/", "l", "x", "/", "b">>, <<"/", "o">>,
     <<"/", "l", "/", ".", ".", "/", "o">>, <<"b">>, <<".", ".", "/", "s">>}
RemoteTargets == LinkTargets \cup {<<"/", "r", "/", "b">>}

InitLink ==
    /\ local \in {Tree(LNode(S_IFLNK, 511, Len(t), 10, <<1, 1>>, t),
                       NoLocal, NoLocal) : t \in LinkTargets}
    /\ remote \in {OnHost(Tree(RNode(S_IFLNK, 511, Len(t), 2, <<1, 1>>, t),
                               NoRemote, NoRemote)) : t \in RemoteTargets}
                  \cup {OnHost(Tree(NoRemote, NoRemote, NoRemote))}
    /\ exclude_list = {}
    /\ fix_symlinks \in BOOLEAN
    /\ chown = FALSE
    /\ cwd \in {<<"/", "w">>, <<"/", "l">>}
    /\ fault = NoFault

FaultErrs == {EACCES}

InitFault ==
    /\ local \in {t \in LocalTrees : t[<<"b">>] = NoLocal}
    /\ remote \in {t \in RemoteTrees : t[<<"b">>] = NoRemote}
    /\ exclude_list = {}
    /\ fix_symlinks = FALSE
    /\ chown = FALSE
    /\ cwd = <<"/", "w">>
    /\ fault \in {[at |-> k, err |-> e] : k \in 1..MaxFaultAt, e \in FaultErrs}

\* the race with an external actor: the local tree has no node a, so that
\* the deletion pass removes what the remote tree holds there, and the node
\* one of its operations addresses has just been removed
InitVanish ==
    /\ local \in {t \in LocalTrees : t[<<"a">>] = NoLocal}
    /\ remote \in RemoteTrees
    /\ exclude_list = {}
    /\ fix_symlinks = FALSE
    /\ chown = FALSE
    /\ cwd = <<"/", "w">>
    /\ fault \in {[at |-> k, err |-> ENOENT] : k \in 1..MaxFaultAt}

\* trees with symlinks that lead to the directory above them or beside
\* them, on a remote host that is healthy or fails one operation
LLinkUp == LNode(S_IFLNK, 511, 4, 10, <<1, 1>>, <<"/", "l", "/", "a">>)

LiveInit ==
    /\ local \in {Tree(LDir0, b, c) : b \in {NoLocal, LFile0, LLinkUp},
                                      c \in {NoLocal, LFile0, LLinkUp}}
    /\ remote \in {OnHost(Tree(RDir0, b, c)) :
                     b \in {NoRemote, RFile0, RLinkIn},
                     c \in {NoRemote, RFile0, RLinkIn}}
    /\ exclude_list = {}
    /\ fix_symlinks \in BOOLEAN
    /\ chown = FALSE
    /\ cwd = <<"/", "w">>
    /\ fault \in {NoFault} \cup {[at |-> k, err |-> e] :
                                   k \in 1..MaxFaultAt, e \in FaultErrs}
    /\ pc = "start"
    /\ stack = <<>>
    /\ log = <<>>
    /\ run = 1
    /\ remote0 = remote

Init ==
    /\ InitTree \/ InitAttr \/ InitLink \/ InitFault \/ InitVanish
    /\ pc = "start"
    /\ stack = <<>>
    /\ log = <<>>
    /\ run = 1
    /\ remote0 = remote

----------------------------------------------------------------------------
(* run() *)

\* variant: the creation pass first
RunPasses_swapped == <<"creation", "deletion">>

\* the passes of run(), in the order it calls them
RunPasses == <<"deletion", "creation">>

RECURSIVE Unwind(_)
\* the calls whose loop has no entry left return
Unwind(st) ==
    IF st = <<>> THEN st
    ELSE IF st[Len(st)].todo = {} THEN Unwind(SubSeq(st, 1, Len(st) - 1))
    ELSE st

RECURSIVE Enter(_, _)
\* run() calls its pass number i: the root call of the pass lists the root
Enter(ctx, i) ==
    IF ctx.err # "ok" THEN [ctx |-> ctx, pc |-> "aborted", stack |-> <<>>]
    ELSE IF i > Len(RunPasses) THEN [ctx |-> ctx, pc |-> "done", stack |-> <<>>]
    ELSE IF RunPasses[i] = "deletion"
    THEN LET c == sftp_listdir_attr([ctx EXCEPT !.pass = "deletion"], Root) IN
         IF c.err # "ok" THEN [ctx |-> c, pc |-> "aborted", stack |-> <<>>]
         ELSE IF c.ret = {} THEN Enter(c, i + 1)
         ELSE [ctx |-> c, pc |-> "deletion",
               stack |-> <<[rel |-> Root, todo |-> c.ret]>>]
    ELSE LET c == [ctx EXCEPT !.pass = "creation"] IN
         IF listdir(Root) = {} THEN Enter(c, i + 1)
         ELSE [ctx |-> c, pc |-> "creation",
               stack |-> <<[rel |-> Root, todo |-> listdir(Root)]>>]

PassIndex(pass) == CHOOSE i \in 1..Len(RunPasses) : RunPasses[i] = pass

\* the state after a step that left context ctx and stack st
Continue(ctx, st) ==
    IF ctx.err # "ok" THEN [ctx |-> ctx, pc |-> "aborted", stack |-> <<>>]
    ELSE IF Unwind(st) = <<>> THEN Enter(ctx, PassIndex(pc) + 1)
    ELSE [ctx |-> ctx, pc |-> pc, stack |-> Unwind(st)]

Commit(r) ==
    /\ remote' = r.ctx.fs
    /\ log' = r.ctx.log
    /\ pc' = r.pc
    /\ stack' = r.stack

Ctx(pass) == [fs |-> remote, log |-> log, err |-> "ok", ret |-> {}, pass |-> pass]

\* run() is called: the first time, or again after a complete run
RunStart ==
    /\ pc = "start" \/ (pc = "done" /\ run < MaxRuns)
    /\ run' = IF pc = "start" THEN run ELSE run + 1
    /\ remote0' = remote
    /\ LET c0 == [fs |-> remote, log |-> <<>>, err |-> "ok", ret |-> {},
                  pass |-> "none"]
       IN  Commit(Enter(c0, 1))
    /\ UNCHANGED <<local, exclude_list, fix_symlinks, chown, cwd, fault>>

\* one entry of the listing of the innermost check_for_deletion call
DeletionStep ==
    /\ pc = "deletion"
    /\ stack # <<>>
    /\ \E remote_st \in stack[Len(stack)].todo :
         LET top == stack[Len(stack)]
             r == check_for_deletion_entry(Ctx("deletion"), top.rel, remote_st)
             st == [stack EXCEPT ![Len(stack)].todo = @ \ {remote_st}] \o r.push
         IN  Commit(Continue(r.ctx, st))
    /\ UNCHANGED <<local, exclude_list, fix_symlinks, chown, cwd, fault, run,
                   remote0>>

\* one entry of the listing of the innermost check_for_upload_create call
CreationStep ==
    /\ pc = "creation"
    /\ stack # <<>>
    /\ \E f \in stack[Len(stack)].todo :
         LET top == stack[Len(stack)]
             r == node_check_for_upload_create(Ctx("creation"), top.rel,
                                               f.filename)
             st == [stack EXCEPT ![Len(stack)].todo = @ \ {f}] \o r.push
         IN  Commit(Continue(r.ctx, st))
    /\ UNCHANGED <<local, exclude_list, fix_symlinks, chown, cwd, fault, run,
                   remote0>>

Next == RunStart \/ DeletionStep \/ CreationStep

Spec == Init /\ [][Next]_vars

\* a pass is running: its loop has an entry to take
Running == pc \in {"deletion", "creation"}

\* run() is synchronous: once it is called, the loop of the running pass
\* takes its next entry as long as it has one.  This is weak fairness of the
\* steps of the passes, WF_vars(DeletionStep \/ CreationStep), written out
\* with the enabling condition of a step, Running
LiveSpec ==
    LiveInit /\ [][Next]_vars /\ ([]<>~Running \/ []<><<Running>>_vars)

----------------------------------------------------------------------------
(* Vocabulary of the properties *)

\* the fault has struck: an operation of the current run failed
Struck ==
    /\ run = 1
    /\ fault.at # 0
    /\ fault.at <= Len(log)
    /\ fault.err = ENOENT => log[fault.at].pass = "deletion"

\* the current run() has returned and none of its operations was made to fail
Complete == pc = "done" /\ ~Struck

\* a local path is excluded when it or a directory above it is in the
\* exclusion set: the creation pass never visits what lies below an excluded
\* directory
Excluded(p) == \E q \in exclude_list : IsUnder(p, q)

Supported(mode) == S_ISDIR(mode) \/ S_ISLNK(mode) \/ S_ISREG(mode)

\* the operations of the log of the given names, pass and path
Issued(ops, pass, p) ==
    {i \in 1..Len(log) : log[i].op \in ops /\ log[i].pass = pass /\ log[i].path = p}

Writes == {"mkdir", "put", "symlink", "remove", "rmdir", "chmod", "utime", "chown"}
Structural == {"mkdir", "put", "symlink", "remove", "rmdir"}

\* the node at p is the one the run started with, not one the run made
Original(p) == remote[p].st_mode # 0 /\ remote[p].gen # run

----------------------------------------------------------------------------
(* C1: Mirror property.  After a complete run in which no operation fails, *)
(* every local path that is not excluded and has a supported type          *)
(* (directory, symlink, regular file) has a remote node of the same type   *)
(* at the same relative path.                                              *)
MirrorProperty ==
    Complete =>
        \A p \in Paths :
            (Supported(local[p].st_mode) /\ ~Excluded(p))
                => S_IFMT(remote[p].st_mode) = S_IFMT(local[p].st_mode)

----------------------------------------------------------------------------
\* the remote node at p had no live, type-matching, non-excluded local
\* counterpart when the run started
NoCounterpart(p) ==
    \/ local[p].st_mode = 0
    \/ S_IFMT(local[p].st_mode) # S_IFMT(remote0[p].st_mode)
    \/ p \in exclude_list

(* C2: Deletion completeness, as claimed.  After a complete run, a remote  *)
(* path whose local counterpart was absent, of another type or in the      *)
(* exclusion set no longer holds the node it held, nor does any path below *)
(* it.                                                                     *)
DeletionCompletenessClaimed ==
    Complete =>
        \A p \in Paths :
            (remote0[p].st_mode # 0 /\ NoCounterpart(p))
                => \A q \in Paths : IsUnder(q, p) => ~Original(q)

(* C2, amended: the exclusion set plays no part in the deletion pass.      *)
(* After a complete run, a remote path whose local counterpart was absent  *)
(* or of another type no longer holds the node it held, nor does any path  *)
(* below it; a remote path with no local counterpart holds no node; and a  *)
(* remote node whose local counterpart has its type, excluded or not, is   *)
(* not removed by the deletion pass.                                       *)
DeletionCompleteness ==
    Complete =>
        \A p \in Paths :
            /\ (/\ remote0[p].st_mode # 0
                /\ \/ local[p].st_mode = 0
                   \/ S_IFMT(local[p].st_mode) # S_IFMT(remote0[p].st_mode))
                   => \A q \in Paths : IsUnder(q, p) => ~Original(q)
            /\ local[p].st_mode = 0 => remote[p].st_mode = 0
            /\ (/\ remote0[p].st_mode # 0
                /\ S_IFMT(local[p].st_mode) = S_IFMT(remote0[p].st_mode))
                   => Issued({"remove", "rmdir"}, "deletion", p) = {}

\* a run has removed a remote directory and the node below it
DeletionCompletenessWitness ==
    /\ Complete
    /\ S_ISDIR(remote0[<<"a">>].st_mode)
    /\ remote0[<<"a", "c">>].st_mode # 0
    /\ local[<<"a">>].st_mode = 0
    /\ remote[<<"a">>].st_mode = 0
    /\ remote[<<"a", "c">>].st_mode = 0

----------------------------------------------------------------------------
(* C3: Idempotence.  A second run after a complete first run, with no      *)
(* change in between, issues no put, mkdir, symlink, remove or rmdir.      *)
Idempotence ==
    (run > 1 /\ fault = NoFault) =>
        \A i \in 1..Len(log) : log[i].op \notin Structural

\* a second run has ended after a first run that uploaded, created and linked
IdempotenceWitness ==
    /\ run = 2
    /\ pc = "done"
    /\ fault = NoFault
    /\ \E p \in Paths : S_ISREG(remote[p].st_mode) /\ remote[p].gen = 1
    /\ \E p \in Paths : S_ISDIR(remote[p].st_mode) /\ remote[p].gen = 1
    /\ \E p \in Paths : S_ISLNK(remote[p].st_mode) /\ remote[p].gen = 1
    /\ log # <<>>

----------------------------------------------------------------------------
(* C4: Exclusion over a whole run.  For a local node in the exclusion set, *)
(* a complete run issues no write at the remote path or below it, and the  *)
(* remote subtree at that path is the same after the run as before.        *)
ExclusionWholeRun ==
    Complete =>
        \A p \in exclude_list : \A q \in Paths :
            IsUnder(q, p) =>
                /\ remote[q] = remote0[q]
                /\ \A i \in 1..Len(log) :
                       log[i].path = q => log[i].op \notin Writes

----------------------------------------------------------------------------
(* C5: Type change.  A path that is not excluded, a regular file on the    *)
(* remote side and a directory on the local side when a run starts: the    *)
(* run removes the remote file and afterwards creates a directory there,   *)
(* and a directory made by this run is at the path when the run ends.      *)
TypeChange ==
    Complete =>
        \A p \in Paths :
            (/\ ~Excluded(p)
             /\ S_ISREG(remote0[p].st_mode)
             /\ S_ISDIR(local[p].st_mode))
                => /\ S_ISDIR(remote[p].st_mode)
                   /\ remote[p].gen = run
                   /\ \E i \in 1..Len(log) : \E j \in 1..Len(log) :
                          /\ i < j
                          /\ log[i].op = "remove" /\ log[i].path = p
                          /\ log[j].op = "mkdir" /\ log[j].path = p
                   /\ Issued({"put", "symlink"}, "creation", p) = {}

TypeChangeWitness ==
    /\ Complete
    /\ S_ISREG(remote0[<<"a">>].st_mode)
    /\ S_ISDIR(local[<<"a">>].st_mode)
    /\ <<"a">> \notin exclude_list
    /\ S_ISDIR(remote[<<"a">>].st_mode)

----------------------------------------------------------------------------
\* in the log l every operation of the deletion pass comes before every
\* operation of the creation pass
DeletionBeforeCreation(l) ==
    \A i \in 1..Len(l) : \A j \in 1..Len(l) :
        (i < j) => ~(l[i].pass = "creation" /\ l[j].pass = "deletion")

(* C6: Pass ordering.  In every run, no operation of the deletion pass     *)
(* follows an operation of the creation pass, and a run that aborted takes *)
(* no further step: after a failure in the deletion pass the creation pass *)
(* does not start.                                                         *)
PassOrdering ==
    [][/\ pc # "aborted"
       /\ DeletionBeforeCreation(log')
       /\ (pc' = "aborted" /\ log'[Len(log')].pass = "deletion")
             => \A i \in 1..Len(log') : log'[i].pass = "deletion"]_vars

\* a run with operations of both passes, and a run aborted in its deletion pass
PassOrderingWitness ==
    /\ pc = "done"
    /\ \E i \in 1..Len(log) : log[i].pass = "deletion" /\ log[i].op = "remove"
    /\ \E i \in 1..Len(log) : log[i].pass = "creation" /\ log[i].op = "put"

PassOrderingAbortWitness ==
    /\ pc = "aborted"
    /\ log[Len(log)].pass = "deletion"
    /\ Children(local, Root) # {}

----------------------------------------------------------------------------
\* the components of the local root and of a target, "." and ".." resolved
RootComps == Normalize(Split(local_path, <<>>), <<>>)
TargetComps(t) == Normalize(Split(t, <<>>), <<>>)
IsAbsolute(t) == t # <<>> /\ t[1] = "/"
\* the target lies under the local root, component by component
PointsInsideTree(t) ==
    /\ Len(TargetComps(t)) > Len(RootComps)
    /\ SubSeq(TargetComps(t), 1, Len(RootComps)) = RootComps
\* the remote root followed by the components of the target below the root
Rewritten(t) ==
    remote_path \o Unsplit(SubSeq(TargetComps(t), Len(RootComps) + 1,
                                  Len(TargetComps(t))))

SymlinkNoWriteWitness ==
    /\ Complete
    /\ ~fix_symlinks
    /\ local[<<"a">>].link = <<"/", "l", "/", "b">>
    /\ remote0[<<"a">>].st_mode = 0
    /\ remote[<<"a">>].st_mode = 0

----------------------------------------------------------------------------
\* the remote node the creation pass finds at p: the deletion pass has
\* removed what was no regular file
FoundAt(p) == IF S_ISREG(remote0[p].st_mode) THEN remote0[p] ELSE NoRemote

Stale(p) ==
    \/ FoundAt(p).st_mode = 0
    \/ FoundAt(p).st_size # local[p].st_size
    \/ FoundAt(p).st_mtime # local[p].st_mtime \div 10

(* C8: Upload trigger.  A local regular file that is not excluded is       *)
(* uploaded by the creation pass iff there is no remote node at its path   *)
(* when it is visited, or the remote size differs from the local size, or  *)
(* the remote modification time differs from the local one truncated to    *)
(* whole seconds; when it is not uploaded no write is issued for it.       *)
UploadTrigger ==
    Complete =>
        \A p \in Paths :
            (S_ISREG(local[p].st_mode) /\ ~Excluded(p)) =>
                /\ Issued({"put"}, "creation", p) # {} <=> Stale(p)
                /\ ~Stale(p) => Issued(Writes, "creation", p) = {}

\* a file uploaded for its time alone, the sizes being equal; a file not
\* uploaded although the local time has a fraction the remote one lacks
UploadForTimeWitness ==
    /\ Complete
    /\ S_ISREG(local[<<"a">>].st_mode)
    /\ S_ISREG(remote0[<<"a">>].st_mode)
    /\ remote0[<<"a">>].st_size = local[<<"a">>].st_size
    /\ remote0[<<"a">>].st_mtime # local[<<"a">>].st_mtime \div 10
    /\ Issued({"put"}, "creation", <<"a">>) # {}

NoUploadWitness ==
    /\ Complete
    /\ S_ISREG(local[<<"a">>].st_mode)
    /\ S_ISREG(remote0[<<"a">>].st_mode)
    /\ local[<<"a">>].st_mtime % 10 # 0
    /\ Issued({"put"}, "creation", <<"a">>) = {}

----------------------------------------------------------------------------
(* C9: File freshness.  After a complete run in which no operation fails,  *)
(* the remote node of every local regular file that is not excluded is a   *)
(* regular file of the local size and of the local modification time       *)
(* truncated to whole seconds.                                             *)
FileFreshness ==
    Complete =>
        \A p \in Paths :
            (S_ISREG(local[p].st_mode) /\ ~Excluded(p)) =>
                /\ S_ISREG(remote[p].st_mode)
                /\ remote[p].st_size = local[p].st_size
                /\ remote[p].st_mtime = local[p].st_mtime \div 10

\* a run has uploaded a file over a remote file of another size and time
FileFreshnessWitness ==
    /\ Complete
    /\ run = 1
    /\ S_ISREG(local[<<"a">>].st_mode)
    /\ S_ISREG(remote0[<<"a">>].st_mode)
    /\ remote0[<<"a">>].st_size # local[<<"a">>].st_size
    /\ local[<<"a">>].st_mtime % 10 # 0
    /\ remote0[<<"a">>].st_mtime # local[<<"a">>].st_mtime \div 10
    /\ remote[<<"a">>].st_size = local[<<"a">>].st_size

----------------------------------------------------------------------------
(* C10: Directory metadata.  After a complete run in which no operation    *)
(* fails, the remote directory of every local directory that is not        *)
(* excluded has the local permission bits, access and modification times   *)
(* (in whole seconds) and, when privileged, the local uid and gid; also    *)
(* when the run has created children in it.                                *)
DirectoryMetadata ==
    Complete =>
        \A p \in Paths :
            (S_ISDIR(local[p].st_mode) /\ ~Excluded(p)) =>
                /\ S_ISDIR(remote[p].st_mode)
                /\ S_IMODE(remote[p].st_mode) = S_IMODE(local[p].st_mode)
                /\ remote[p].st_atime = local[p].st_atime \div 10
                /\ remote[p].st_mtime = local[p].st_mtime \div 10
                /\ chown => /\ remote[p].st_uid = local[p].st_uid
                            /\ remote[p].st_gid = local[p].st_gid

----------------------------------------------------------------------------
\* the entries of the log that the step adds: run() starts a new log
Fresh ==
    IF pc \in {"start", "done"} THEN 1..Len(log')
    ELSE (Len(log) + 1)..Len(log')

\* every directory on the way from the remote root to p is a real directory
ThroughDirectories(fs, p) ==
    \A k \in 1..(Len(p) - 1) : IsDir(fs, SubSeq(p, 1, k))

(* C11: Symlink containment.  No step lists a remote symlink or a path     *)
(* through one during the deletion pass; every remove and rmdir of a run   *)
(* addresses a path whose directories, from the remote root down, are real *)
(* directories when the step starts; and the nodes of the remote host      *)
(* outside the remote root stay as they were.                              *)
SymlinkContainment ==
    [][/\ \A i \in Fresh :
            /\ log'[i].op \in {"remove", "rmdir"}
                   => ThroughDirectories(remote, log'[i].path)
            /\ (log'[i].op = "listdir_attr" /\ log'[i].pass = "deletion")
                   => /\ ThroughDirectories(remote, log'[i].path)
                      /\ IsDir(remote, log'[i].path)
        /\ remote'[Outside] = remote[Outside]
        /\ remote'[OutsideFile] = remote[OutsideFile]]_vars

\* a run has removed a remote symlink that led to the directory outside the
\* remote root, and the file in that directory is still there
SymlinkContainmentWitness ==
    /\ Complete
    /\ S_ISLNK(remote0[<<"b">>].st_mode)
    /\ Dest(remote0, <<"b">>) = {Outside}
    /\ Issued({"remove"}, "deletion", <<"b">>) # {}
    /\ remote[OutsideFile] = OutsideTree[OutsideFile]

----------------------------------------------------------------------------
\* the operation that was made to fail
Failed == log[fault.at]

(* C12: Failure propagation.  When an operation of a run fails with an     *)
(* error that is not "not found", and the operation is not one of those    *)
(* that write a symlink, the run is aborted and the failed operation is    *)
(* the last one it issued.                                                 *)
FailurePropagation ==
    (/\ Struck
     /\ fault.err # ENOENT
     /\ Failed.op \notin {"readlink", "symlink"}
     /\ ~(Failed.op = "remove" /\ Failed.pass = "creation"))
        => pc = "aborted" /\ Len(log) = fault.at

----------------------------------------------------------------------------
\* the deletion pass deletes the remote node at p: the node, or a directory
\* above it, has no local counterpart of its type
Doomed(p) ==
    \E k \in 1..Len(p) :
        LET q == SubSeq(p, 1, k) IN
        /\ q \in Paths
        /\ remote0[q].st_mode # 0
        /\ _must_be_deleted(q, remote0[q])

\* the operations by which remote_delete deletes a node
DeleteOps == {"listdir_attr", "remove", "rmdir"}

(* C13: Benign delete race.  When an operation that deletes a remote node  *)
(* finds the node removed by an external actor, be the node a file, a      *)
(* symlink or a directory, the run is not aborted; when a remove fails     *)
(* for another reason during the deletion pass, the run is aborted.        *)
BenignDeleteRace ==
    /\ (/\ Struck
        /\ fault.err = ENOENT
        /\ Failed.op \in DeleteOps
        /\ Doomed(Failed.path))
           => pc # "aborted"
    /\ (/\ Struck
        /\ fault.err # ENOENT
        /\ Failed.op = "remove"
        /\ Failed.pass = "deletion")
           => pc = "aborted"

----------------------------------------------------------------------------
(* C14: Post-order deletion.  When the log of a run holds an rmdir of a    *)
(* directory, every node the remote tree held below that directory when    *)
(* the run started has a remove or an rmdir earlier in the log; and an     *)
(* rmdir fails only when it is made to fail: it never meets a directory    *)
(* that is not empty.                                                      *)
PostOrderDeletion ==
    /\ \A i \in 1..Len(log) :
          log[i].op = "rmdir" =>
              \A q \in Paths :
                  (/\ q # log[i].path
                   /\ IsUnder(q, log[i].path)
                   /\ remote0[q].st_mode # 0)
                      => \E j \in 1..(i - 1) :
                            /\ log[j].op \in {"remove", "rmdir"}
                            /\ log[j].path = q
    /\ (/\ pc = "aborted"
        /\ log # <<>>
        /\ log[Len(log)].op = "rmdir")
           => Struck /\ fault.at = Len(log)

\* a run has removed a remote directory that held a symlink leading to the
\* directory itself: the link first, then the directory
PostOrderDeletionWitness ==
    /\ Complete
    /\ S_ISDIR(remote0[<<"a">>].st_mode)
    /\ S_ISLNK(remote0[<<"a", "c">>].st_mode)
    /\ Dest(remote0, <<"a", "c">>) = {<<"a">>}
    /\ Issued({"remove"}, "deletion", <<"a", "c">>) # {}
    /\ Issued({"rmdir"}, "deletion", <<"a">>) # {}
    /\ remote[<<"a">>].st_mode = 0

----------------------------------------------------------------------------
(* C15: Pre-order creation.  When a step of the creation pass issues       *)
(* mkdir, put or symlink at a remote path, every directory on the way from *)
(* the remote root to that path, its parent included, is a real directory  *)
(* of the remote tree when the step starts.                                *)
PreOrderCreation ==
    [][\A i \in Fresh :
          (/\ log'[i].pass = "creation"
           /\ log'[i].op \in {"mkdir", "put", "symlink"})
              => /\ IsDir(remote, Parent(log'[i].path))
                 /\ ThroughDirectories(remote, log'[i].path)]_vars

\* a run has made the directory a and then uploaded the file a/c into it
PreOrderCreationWitness ==
    /\ Complete
    /\ remote0[<<"a">>].st_mode = 0
    /\ \E i \in Issued({"mkdir"}, "creation", <<"a">>) :
          \E j \in Issued({"put"}, "creation", <<"a", "c">>) : i < j

----------------------------------------------------------------------------
\* the step is a call of create_update_symlink for the remote path p
SymlinkCall(p) ==
    /\ pc = "creation"
    /\ Len(log') > Len(log)
    /\ log'[Len(log) + 1].op = "readlink"
    /\ log'[Len(log) + 1].path = p

\* the link destination the call is given for the local target l
LinkDestination(l) ==
    IF is_absolute(l) /\ relpath(l) THEN join(remote_path, relative_link(l))
    ELSE l

\* the operations the step issues are ops, in that order, all at p
OpsAre(ops, p) ==
    /\ Len(log') = Len(log) + Len(ops)
    /\ \A i \in 1..Len(ops) :
          /\ log'[Len(log) + i].op = ops[i]
          /\ log'[Len(log) + i].path = p

\* none of the operations of the step is made to fail
Unfailed == run # 1 \/ fault.at \notin Fresh

\* the three cases of the call and the link it leaves at p
SymlinkCases(p, X) ==
    /\ (S_ISLNK(remote[p].st_mode) /\ remote[p].link = X)
           => OpsAre(<<"readlink">>, p)
    /\ (S_ISLNK(remote[p].st_mode) /\ remote[p].link # X)
           => OpsAre(<<"readlink", "remove", "symlink">>, p)
    /\ remote[p].st_mode = 0
           => OpsAre(<<"readlink", "symlink">>, p)
    /\ (S_ISLNK(remote[p].st_mode) \/ remote[p].st_mode = 0)
           => /\ S_ISLNK(remote'[p].st_mode)
              /\ remote'[p].link = X

(* C16: create_update_symlink(X, P), as claimed.  A link at P with target  *)
(* X: no write.  A link with another target: remove, then symlink.  No     *)
(* node: symlink.  When no operation fails the node at P is then a symlink *)
(* with target X and every other remote path holds what it held.           *)
CreateUpdateSymlinkClaimed ==
    [][\A p \in Paths :
          (SymlinkCall(p) /\ Unfailed) =>
              /\ SymlinkCases(p, LinkDestination(local[p].link))
              /\ \A q \in DOMAIN remote \ {p} : remote'[q] = remote[q]]_vars

(* C16, amended: as above, except that the directory that holds P gets a   *)
(* new modification time when the call removes or creates a link in it;    *)
(* nothing else of any other remote path changes.                          *)
CreateUpdateSymlink ==
    [][\A p \in Paths :
          (SymlinkCall(p) /\ Unfailed) =>
              /\ SymlinkCases(p, LinkDestination(local[p].link))
              /\ \A q \in DOMAIN remote \ {p} :
                    \/ remote'[q] = remote[q]
                    \/ /\ q = Parent(p)
                       /\ Len(log') > Len(log) + 1
                       /\ remote'[q] = [remote[q] EXCEPT !.st_mtime = ServerNow]]_vars

\* a run has replaced a remote link in the directory a by one with the
\* target of the local link, and the directory has a new modification time
CreateUpdateSymlinkWitness ==
    /\ Complete
    /\ S_ISLNK(local[<<"a", "c">>].st_mode)
    /\ S_ISLNK(remote0[<<"a", "c">>].st_mode)
    /\ remote0[<<"a", "c">>].link # local[<<"a", "c">>].link
    /\ remote[<<"a", "c">>].link = local[<<"a", "c">>].link
    /\ Issued({"remove"}, "creation", <<"a", "c">>) # {}
    /\ remote[<<"a">>].st_mtime = ServerNow

----------------------------------------------------------------------------
\* the operations the creation pass has issued at p
CreationOps(p) ==
    {i \in 1..Len(log) : log[i].pass = "creation" /\ log[i].path = p}

(* C17: Creation-pass exclusion.  The creation pass issues no remote       *)
(* operation at a path that is in the exclusion set or lies below a        *)
(* directory that is, and never lists such a directory; it goes on with    *)
(* the other entries: after a complete run every local directory and every *)
(* regular file that is not excluded has been probed on the remote side.   *)
CreationExclusion ==
    /\ \A p \in Paths : Excluded(p) => CreationOps(p) = {}
    /\ pc = "creation" =>
          \A k \in 1..Len(stack) : ~Excluded(stack[k].rel)
    /\ Complete =>
          \A p \in Paths :
              (/\ ~Excluded(p)
               /\ S_ISDIR(local[p].st_mode) \/ S_ISREG(local[p].st_mode))
                  => Issued({"stat", "lstat"}, "creation", p) # {}

\* a run has skipped the excluded directory a and what it holds, and has
\* uploaded its sibling b
CreationExclusionWitness ==
    /\ Complete
    /\ exclude_list = {<<"a">>}
    /\ S_ISDIR(local[<<"a">>].st_mode)
    /\ S_ISREG(local[<<"a", "c">>].st_mode)
    /\ remote0[<<"a">>].st_mode = 0
    /\ remote[<<"a">>].st_mode = 0
    /\ CreationOps(<<"a">>) = {}
    /\ CreationOps(<<"a", "c">>) = {}
    /\ Issued({"put"}, "creation", <<"b">>) # {}

----------------------------------------------------------------------------
(* C18: Metadata mirror for files.  After a complete run, for every local  *)
(* regular file that is not excluded, the remote file at the same path has *)
(* the permission bits of the local file and, when the session may change  *)
(* owners, its uid and gid, whatever the remote tree held when the run     *)
(* started.                                                                *)
FileMetadataMirror ==
    Complete =>
        \A p \in Paths :
            (S_ISREG(local[p].st_mode) /\ ~Excluded(p)) =>
                /\ S_IMODE(remote[p].st_mode) = S_IMODE(local[p].st_mode)
                /\ chown => /\ remote[p].st_uid = local[p].st_uid
                            /\ remote[p].st_gid = local[p].st_gid

----------------------------------------------------------------------------
\* the operations by which a pass visits a node
DeletionVisits == {"listdir_attr", "lstat", "remove", "rmdir"}
CreationVisits == {"stat", "lstat", "readlink", "mkdir"}

\* no node of the remote host is the object of the same operation of the
\* deletion pass twice, by whatever path; no local path is probed twice by
\* the creation pass
VisitedOnce ==
    \A i \in 1..Len(log) :
        \A j \in (i + 1)..Len(log) :
            /\ ~(/\ log[i].pass = "deletion"
                 /\ log[j].pass = "deletion"
                 /\ log[i].op \in DeletionVisits
                 /\ log[j].op = log[i].op
                 /\ log[j].node = log[i].node)
            /\ ~(/\ log[i].pass = "creation"
                 /\ log[j].pass = "creation"
                 /\ log[i].op \in CreationVisits
                 /\ log[j].op = log[i].op
                 /\ log[j].path = log[i].path)

(* C19: Termination.  A run() that has been called ends: both passes       *)
(* finish, or an operation that fails aborts the run; and during a run no  *)
(* remote node is visited twice by the deletion pass and no local node     *)
(* twice by the creation pass, also when the trees hold symlinks that lead *)
(* to a directory above them.                                              *)
Termination ==
    /\ []VisitedOnce
    /\ Running ~> (pc \in {"done", "aborted"})

\* a run has ended on trees in which the symlink a/c leads to the directory
\* a that holds it, on both sides
TerminationWitness ==
    /\ Complete
    /\ local[<<"a", "c">>] = LLinkUp
    /\ S_ISLNK(remote0[<<"a", "c">>].st_mode)
    /\ Dest(remote0, <<"a", "c">>) = {<<"a">>}
    /\ S_ISDIR(remote[<<"a">>].st_mode)
    /\ Issued({"lstat"}, "deletion", <<"a", "c">>) # {}

====
